---- MODULE Spec2Model ----
(***************************************************************************)
(* Model of the livepeer-swarm media server (mediaserver.StartLPMS): the   *)
(* HLS playback handler with its readiness polling, the idle reaper        *)
(* (startHlsUnsubscribeWorker), the RTMP publish / finish handlers and the *)
(* RTMP playback handler, running as concurrent goroutines over the shared *)
(* hlsSubTimer map and the Streamer registry.                              *)
(*                                                                         *)
(* Strings are sequences of one-character strings.  Time is counted in     *)
(* seconds.  A time.Time value t is represented by time.Since(t), which is *)
(* all the code ever computes from it; the value is saturated one above    *)
(* the threshold it is compared with, so that time can pass for ever in a  *)
(* finite state space.                                                     *)
(***************************************************************************)
EXTENDS Integers, Sequences, FiniteSets, Bags, TLC

\* ------------------------------------------------------------------------
\* Program constants (seconds)
\* ------------------------------------------------------------------------
HLSWaitTime == 10

HLSUnsubscribeWaitLimit == 20

HLSPollSleep == 2

ReaperSleep == 5

\* ------------------------------------------------------------------------
\* Bounds of the model
\* ------------------------------------------------------------------------
NumHLSTasks == 2

NumRTMPTasks == 2

MaxSessions == 2

HLSProcs == 1..NumHLSTasks

RTMPProcs == 1..NumRTMPTasks

\* ------------------------------------------------------------------------
\* Strings
\* ------------------------------------------------------------------------
Alpha == {"a", "b", "c", "d", "e", "f", "g", "h", "i", "j", "k", "l", "m",
          "n", "o", "p", "q", "r", "s", "t", "u", "v", "w", "x", "y", "z"}

Digit == {"0", "1", "2", "3", "4", "5", "6", "7", "8", "9"}

\* the character class ([[:alpha:]]|\d)
IsAlnum(c) == c \in Alpha \cup Digit

StreamPrefix == <<"/", "s", "t", "r", "e", "a", "m", "/">>

\* s has the substring sub at position i
HasAt(s, sub, i) ==
    /\ i >= 1
    /\ i + Len(sub) - 1 <= Len(s)
    /\ \A k \in 1..Len(sub) : s[i + k - 1] = sub[k]

\* end of the longest run of alphanumerics of s that starts at position i
RECURSIVE AlnumRunEnd(_, _)
AlnumRunEnd(s, i) ==
    IF i <= Len(s) /\ IsAlnum(s[i]) THEN AlnumRunEnd(s, i + 1) ELSE i - 1

\* regexp "\/stream\/([[:alpha:]]|\d)*", FindString: the leftmost match,
\* with the greedy repetition; "" when there is none
FindString(reqPath) ==
    LET starts == {i \in 1..Len(reqPath) : HasAt(reqPath, StreamPrefix, i)}
    IN  IF starts = {} THEN <<>>
        ELSE LET i == CHOOSE j \in starts : \A k \in starts : j <= k
             IN  SubSeq(reqPath, i, AlnumRunEnd(reqPath, i + Len(StreamPrefix)))

\* strings.Replace(s, old, "", -1): every non-overlapping occurrence removed
RECURSIVE RemoveAll(_, _)
RemoveAll(s, old) ==
    IF s = <<>> THEN <<>>
    ELSE IF HasAt(s, old, 1)
         THEN RemoveAll(SubSeq(s, Len(old) + 1, Len(s)), old)
         ELSE <<s[1]>> \o RemoveAll(Tail(s), old)

parseStreamID(reqPath) ==
    LET match == FindString(reqPath)
    IN  IF match # <<>> THEN RemoveAll(match, StreamPrefix) ELSE <<>>

\* ------------------------------------------------------------------------
\* Stream identifiers (package streaming)
\* ------------------------------------------------------------------------
NodeIDLen == 1

SelfAddress == <<"s">>

MakeStreamID(nodeID, id) == nodeID \o id

\* (nodeID, streamID); both empty when the identifier is too short to hold
\* a node identifier and a stream identifier
SplitComponents(sid) ==
    IF Len(sid) <= NodeIDLen THEN <<(<<>>), (<<>>)>>
    ELSE <<SubSeq(sid, 1, NodeIDLen), SubSeq(sid, NodeIDLen + 1, Len(sid))>>

\* streaming.RandomStreamID: no uniqueness guarantee
RandomStreamIDs == {<<"2">>, <<"3">>}

\* ------------------------------------------------------------------------
\* Request paths offered by the front end
\* ------------------------------------------------------------------------
PathRemote == StreamPrefix \o <<"r", "1">>

PathSelf == StreamPrefix \o <<"s", "1">>

PathNoMatch == <<"/", "f", "o", "o">>

PathNoID == StreamPrefix

PathNoStreamPart == StreamPrefix \o <<"s">>

PathNested == <<"/", "x">> \o StreamPrefix \o <<"r", "1", "/", "x">>

HLSPaths == {PathRemote, PathSelf, PathNoMatch, PathNoID, PathNoStreamPart,
             PathNested}

\* every stream identifier the handlers can come to use
StreamIDs ==
    {parseStreamID(path) : path \in HLSPaths} \cup
    {MakeStreamID(SelfAddress, id) : id \in RandomStreamIDs}

min(a, b) == IF a <= b THEN a ELSE b

max(a, b) == IF a >= b THEN a ELSE b

\* ------------------------------------------------------------------------
\* State
\* ------------------------------------------------------------------------
VARIABLES
    networkStreams,  \* Streamer: stream id -> format of its NetworkStream
    hlsSubscribers,  \* Streamer: stream id -> buffer subscribed as "local"
    ready,           \* buffers whose LatestPlaylist succeeds
    hlsSubTimer,     \* map[StreamID]time.Time, kept as time.Since(t)
    hls,             \* the HandleHLSPlay goroutines
    reaper,          \* the startHlsUnsubscribeWorker goroutine
    fatal,           \* the Go runtime has stopped the process
    rtmpSubscribers, \* Streamer: the subscribed queues, <<stream id, subID>>
    rtmp,            \* the HandleRTMPPlay goroutines
    sessions,        \* bag of the publish sessions not finished yet,
                     \* <<rtmp id, hls id>>
    pub              \* the latest getStream call of HandleRTMPPublish since
                     \* the last finishStream: its inputs, what it did and
                     \* what it returned

vars == <<networkStreams, hlsSubscribers, ready, hlsSubTimer, hls, reaper,
          fatal, rtmpSubscribers, rtmp, sessions, pub>>

\* the state of the publish and RTMP playback side
rtmpVars == <<rtmpSubscribers, rtmp, sessions, pub>>

NoBuffer == 0

BufferIDs == 1..(NumHLSTasks + 2)

\* buffers some goroutine or the registry still refers to
InUse(subs, h) ==
    {subs[a] : a \in DOMAIN subs} \cup
    ({h[p].hlsBuffer : p \in DOMAIN h} \ {NoBuffer})

\* lpmsStream.NewHLSBuffer: an instance nothing refers to yet
NewHLSBuffer(subs, h) ==
    CHOOSE b \in BufferIDs \ InUse(subs, h) :
        \A c \in BufferIDs \ InUse(subs, h) : b <= c

\* map m with key k set to value v
MapSet(m, k, v) == [x \in DOMAIN m \cup {k} |-> IF x = k THEN v ELSE m[x]]

\* map m without key k
MapDelete(m, k) == [x \in DOMAIN m \ {k} |-> m[x]]

\* Streamer registry
GetNetworkStream(sid) ==
    IF sid \in DOMAIN networkStreams THEN networkStreams[sid] ELSE "nil"

GetHLSMuxer(sid) ==
    IF sid \in DOMAIN hlsSubscribers THEN hlsSubscribers[sid] ELSE NoBuffer

AddNewNetworkStream(streams, sid, format) == MapSet(streams, sid, format)

DeleteNetworkStream(streams, sid) == MapDelete(streams, sid)

\* the NetworkStream table after a subscription to sid: a stream not known
\* locally is created by its first subscription
StreamsAfterSubscribe(streams, sid, format) ==
    IF sid \in DOMAIN streams THEN streams
    ELSE AddNewNetworkStream(streams, sid, format)

SubscribeToHLSStream(subs, sid, buf) == MapSet(subs, sid, buf)

UnsubscribeToHLSStream(subs, sid) == MapDelete(subs, sid)

\* the NetworkStream table after the "local" HLS subscriber of sid is
\* removed: the stream goes with its last subscriber
StreamsAfterUnsubscribe(streams, queues, sid) ==
    IF \E x \in queues : x[1] = sid THEN streams
    ELSE DeleteNetworkStream(streams, sid)

HLSIdle ==
    [pc |-> "idle", strmID |-> <<>>, strm |-> "nil", hlsBuffer |-> NoBuffer,
     created |-> 0, fwd |-> 0, polls |-> 0, since |-> 0, sleep |-> 0,
     wrote |-> 0, err |-> ""]

ReaperIdle ==
    [pc |-> "sleep", sleep |-> ReaperSleep, todo |-> {}, visited |-> {},
     sid |-> <<>>, log |-> <<>>, stopErr |-> FALSE]

RTMPIdle ==
    [pc |-> "idle", strmID |-> <<>>, subID |-> <<>>, fwd |-> 0, consume |-> 0,
     log |-> <<>>, err |-> ""]

\* path, query: the URL of the getStream call; parsed: parseStreamID(url.Path);
\* added: the streams that AddNewNetworkStream created; err, rtmp, hls: what
\* getStream returned; broadcast: the LogBroadcast events
PubNone ==
    [path |-> <<>>, query |-> <<>>, parsed |-> <<>>, added |-> <<>>,
     err |-> "", rtmp |-> <<>>, hls |-> <<>>, broadcast |-> <<>>]

Init ==
    /\ networkStreams = <<>>
    /\ hlsSubscribers = <<>>
    /\ ready = {}
    /\ hlsSubTimer = <<>>
    /\ hls = [p \in HLSProcs |-> HLSIdle]
    /\ reaper = ReaperIdle
    /\ fatal = FALSE
    /\ rtmpSubscribers = {}
    /\ rtmp = [q \in RTMPProcs |-> RTMPIdle]
    /\ sessions = EmptyBag
    /\ pub = PubNone

\* ------------------------------------------------------------------------
\* HandleHLSPlay
\* ------------------------------------------------------------------------
\* lines 62-90 without the test of the owner at line 81: a stream that is
\* not found is always requested from the network
HLSBeginForwardsAlways(p, reqPath) ==
    LET strmID == parseStreamID(reqPath)
        streamID == SplitComponents(strmID)[2]
        strm == GetNetworkStream(strmID)
        call == [HLSIdle EXCEPT !.strmID = strmID]
    IN  /\ ~fatal
        /\ hls[p].pc \in {"idle", "done"}
        /\ hls' = [hls EXCEPT ![p] =
              IF strmID = <<>> \/ streamID = <<>>
              THEN [call EXCEPT !.pc = "done", !.err = "Stream Not Found"]
              ELSE IF strm = "nil"
                   THEN [call EXCEPT !.pc = "getMuxer", !.fwd = 1]
                   ELSE [call EXCEPT !.pc = "getMuxer", !.strm = strm]]
        /\ ready' = ready \cap InUse(hlsSubscribers, hls')
        /\ UNCHANGED <<networkStreams, hlsSubscribers, hlsSubTimer, reaper,
                       fatal, rtmpVars>>

\* lines 62-90 without the call at line 83: a remote stream that is not
\* found is never requested from the network
HLSBeginNeverForwards(p, reqPath) ==
    LET strmID == parseStreamID(reqPath)
        nodeID == SplitComponents(strmID)[1]
        streamID == SplitComponents(strmID)[2]
        strm == GetNetworkStream(strmID)
        call == [HLSIdle EXCEPT !.strmID = strmID]
    IN  /\ ~fatal
        /\ hls[p].pc \in {"idle", "done"}
        /\ hls' = [hls EXCEPT ![p] =
              IF strmID = <<>> \/ streamID = <<>>
              THEN [call EXCEPT !.pc = "done", !.err = "Stream Not Found"]
              ELSE IF strm = "nil"
                   THEN IF SelfAddress # nodeID
                        THEN [call EXCEPT !.pc = "getMuxer"]
                        ELSE [call EXCEPT !.pc = "done", !.err = "NotFound"]
                   ELSE [call EXCEPT !.pc = "getMuxer", !.strm = strm]]
        /\ ready' = ready \cap InUse(hlsSubscribers, hls')
        /\ UNCHANGED <<networkStreams, hlsSubscribers, hlsSubTimer, reaper,
                       fatal, rtmpVars>>

\* lines 62-90: parse and validate the address, look the stream up, forward
HLSBegin(p, reqPath) ==
    LET strmID == parseStreamID(reqPath)
        nodeID == SplitComponents(strmID)[1]
        streamID == SplitComponents(strmID)[2]
        strm == GetNetworkStream(strmID)
        call == [HLSIdle EXCEPT !.strmID = strmID]
    IN  /\ ~fatal
        /\ hls[p].pc \in {"idle", "done"}
        /\ hls' = [hls EXCEPT ![p] =
              IF strmID = <<>> \/ streamID = <<>>
              THEN [call EXCEPT !.pc = "done", !.err = "Stream Not Found"]
              ELSE IF strm = "nil"
                   THEN IF SelfAddress # nodeID
                        THEN [call EXCEPT !.pc = "getMuxer", !.fwd = 1]
                        ELSE [call EXCEPT !.pc = "done", !.err = "NotFound"]
                   ELSE [call EXCEPT !.pc = "getMuxer", !.strm = strm]]
        /\ ready' = ready \cap InUse(hlsSubscribers, hls')
        /\ UNCHANGED <<networkStreams, hlsSubscribers, hlsSubTimer, reaper,
                       fatal, rtmpVars>>

\* lines 92-96, 107: look the "local" buffer up, make a new one if none
HLSGetMuxer(p) ==
    LET found == GetHLSMuxer(hls[p].strmID)
    IN  /\ ~fatal
        /\ hls[p].pc = "getMuxer"
        /\ hls' = [hls EXCEPT ![p] =
              IF found = NoBuffer
              THEN [@ EXCEPT !.pc = "subscribe",
                             !.hlsBuffer = NewHLSBuffer(hlsSubscribers, hls),
                             !.created = 1]
              ELSE [@ EXCEPT !.pc = "poll", !.hlsBuffer = found, !.since = 0]]
        /\ UNCHANGED <<networkStreams, hlsSubscribers, ready, hlsSubTimer,
                       reaper, fatal, rtmpVars>>

\* lines 97-101, 107: subscribe the new buffer; an error is returned as is
HLSSubscribe(p, ok) ==
    /\ ~fatal
    /\ hls[p].pc = "subscribe"
    /\ IF ok
       THEN /\ hlsSubscribers' = SubscribeToHLSStream(hlsSubscribers,
                                     hls[p].strmID, hls[p].hlsBuffer)
            /\ networkStreams' = StreamsAfterSubscribe(networkStreams,
                                     hls[p].strmID, "HLS")
            /\ hls' = [hls EXCEPT ![p].pc = "poll", ![p].since = 0]
       ELSE /\ hlsSubscribers' = hlsSubscribers
            /\ networkStreams' = networkStreams
            /\ hls' = [hls EXCEPT ![p].pc = "done", ![p].hlsBuffer = NoBuffer,
                                  ![p].err = "SubscribeError"]
    /\ ready' = ready \cap InUse(hlsSubscribers', hls')
    /\ UNCHANGED <<hlsSubTimer, reaper, fatal, rtmpVars>>

\* lines 108-116 with the write of line 112 moved before the test of
\* line 111: every poll writes the timestamp
HLSPollRefreshesAlways(p) ==
    /\ ~fatal
    /\ hls[p].pc = "poll"
    /\ hls' = [hls EXCEPT ![p] =
          IF @.hlsBuffer \in ready
          THEN [@ EXCEPT !.pc = "refresh", !.polls = @ + 1, !.since = 0]
          ELSE [@ EXCEPT !.pc = "sleep", !.polls = @ + 1,
                         !.sleep = HLSPollSleep]]
    /\ hlsSubTimer' = MapSet(hlsSubTimer, hls[p].strmID, 0)
    /\ UNCHANGED <<networkStreams, hlsSubscribers, ready, reaper,
                   fatal, rtmpVars>>

\* lines 110-117: one readiness poll; on failure start the 2s sleep
HLSPoll(p) ==
    /\ ~fatal
    /\ hls[p].pc = "poll"
    /\ hls' = [hls EXCEPT ![p] =
          IF @.hlsBuffer \in ready
          THEN [@ EXCEPT !.pc = "refresh", !.polls = @ + 1, !.since = 0]
          ELSE [@ EXCEPT !.pc = "sleep", !.polls = @ + 1,
                         !.sleep = HLSPollSleep]]
    /\ UNCHANGED <<networkStreams, hlsSubscribers, ready, hlsSubTimer, reaper,
                   fatal, rtmpVars>>

\* another goroutine is at an access of hlsSubTimer that can overlap the
\* write of task p (the map has no lock)
Racing(p) ==
    \/ reaper.pc \in {"range", "delete"}
    \/ reaper.pc = "sleep" /\ reaper.sleep = 0
    \/ \E q \in HLSProcs \ {p} : hls[q].pc = "refresh"

\* lines 112-113: hlsSubTimer[strmID] = time.Now(); return the buffer.
\* An unsynchronised overlapping map access can end the process instead
\* ("fatal error: concurrent map writes" / "... iteration and map write").
HLSRefresh(p, crash) ==
    /\ ~fatal
    /\ hls[p].pc = "refresh"
    /\ crash => Racing(p)
    /\ IF crash
       THEN /\ fatal' = TRUE
            /\ UNCHANGED <<hlsSubTimer, hls>>
       ELSE /\ fatal' = fatal
            /\ hlsSubTimer' = MapSet(hlsSubTimer, hls[p].strmID, 0)
            /\ hls' = [hls EXCEPT ![p].pc = "done", ![p].wrote = @ + 1]
    /\ UNCHANGED <<networkStreams, hlsSubscribers, ready, reaper, rtmpVars>>

\* lines 117-120 with >= for > at line 118
HLSWakeGivesUpAtLimit(p) ==
    /\ ~fatal
    /\ hls[p].pc = "sleep"
    /\ hls[p].sleep = 0
    /\ hls' = [hls EXCEPT ![p] =
          IF @.since >= HLSWaitTime
          THEN [@ EXCEPT !.pc = "done", !.hlsBuffer = NoBuffer,
                         !.err = "NotFound"]
          ELSE [@ EXCEPT !.pc = "poll"]]
    /\ ready' = ready \cap InUse(hlsSubscribers, hls')
    /\ UNCHANGED <<networkStreams, hlsSubscribers, hlsSubTimer, reaper, fatal,
                   rtmpVars>>

\* lines 117-120: the sleep is over; give up once the wait exceeds the limit
HLSWake(p) ==
    /\ ~fatal
    /\ hls[p].pc = "sleep"
    /\ hls[p].sleep = 0
    /\ hls' = [hls EXCEPT ![p] =
          IF @.since > HLSWaitTime
          THEN [@ EXCEPT !.pc = "done", !.hlsBuffer = NoBuffer,
                         !.err = "NotFound"]
          ELSE [@ EXCEPT !.pc = "poll"]]
    /\ ready' = ready \cap InUse(hlsSubscribers, hls')
    /\ UNCHANGED <<networkStreams, hlsSubscribers, hlsSubTimer, reaper, fatal,
                   rtmpVars>>

\* segments reach a subscribed buffer: its LatestPlaylist succeeds from now on
BufferFill(b) ==
    /\ ~fatal
    /\ b \in {hlsSubscribers[a] : a \in DOMAIN hlsSubscribers}
    /\ b \notin ready
    /\ ready' = ready \cup {b}
    /\ UNCHANGED <<networkStreams, hlsSubscribers, hlsSubTimer, hls, reaper,
                   fatal, rtmpVars>>

\* ------------------------------------------------------------------------
\* startHlsUnsubscribeWorker
\* ------------------------------------------------------------------------
\* line 41-42: the sleep is over, the range over hlsSubTimer begins
ReaperWake ==
    /\ ~fatal
    /\ reaper.pc = "sleep"
    /\ reaper.sleep = 0
    /\ reaper' = [reaper EXCEPT !.pc = "range", !.todo = DOMAIN hlsSubTimer,
                                !.visited = {}]
    /\ UNCHANGED <<networkStreams, hlsSubscribers, ready, hlsSubTimer, hls,
                   fatal, rtmpVars>>

\* lines 42-43: the range produces the next entry (sid, t) and tests its age.
\* An entry created during the iteration may be produced or skipped.
ReaperNext(sid) ==
    /\ ~fatal
    /\ reaper.pc = "range"
    /\ sid \in DOMAIN hlsSubTimer \ reaper.visited
    /\ reaper' = [reaper EXCEPT
          !.visited = @ \cup {sid},
          !.pc = IF hlsSubTimer[sid] > HLSUnsubscribeWaitLimit
                 THEN "unsub" ELSE "range",
          !.sid = IF hlsSubTimer[sid] > HLSUnsubscribeWaitLimit
                  THEN sid ELSE <<>>,
          !.log = <<>>,
          !.stopErr = FALSE]
    /\ UNCHANGED <<networkStreams, hlsSubscribers, ready, hlsSubTimer, hls,
                   fatal, rtmpVars>>

\* line 48-49, 41: the range is exhausted, sleep again
ReaperEnd ==
    /\ ~fatal
    /\ reaper.pc = "range"
    /\ (reaper.todo \cap DOMAIN hlsSubTimer) \subseteq reaper.visited
    /\ reaper' = ReaperIdle
    /\ UNCHANGED <<networkStreams, hlsSubscribers, ready, hlsSubTimer, hls,
                   fatal, rtmpVars>>

\* line 44
ReaperUnsubscribe ==
    /\ ~fatal
    /\ reaper.pc = "unsub"
    /\ hlsSubscribers' = UnsubscribeToHLSStream(hlsSubscribers, reaper.sid)
    /\ networkStreams' = StreamsAfterUnsubscribe(networkStreams,
                             rtmpSubscribers, reaper.sid)
    /\ reaper' = [reaper EXCEPT !.pc = "stop",
                                !.log = Append(@, "UnsubscribeToHLSStream")]
    /\ ready' = ready \cap InUse(hlsSubscribers', hls)
    /\ UNCHANGED <<hlsSubTimer, hls, fatal, rtmpVars>>

\* line 45 as it would be if a failed StopStream ended the eviction: the
\* loop goes on to the next entry and leaves this one in the map
ReaperStopStreamGivesUp(ok) ==
    /\ ~fatal
    /\ reaper.pc = "stop"
    /\ reaper' = [reaper EXCEPT !.pc = IF ok THEN "delete" ELSE "range",
                                !.log = Append(@, "StopStream"),
                                !.stopErr = ~ok]
    /\ UNCHANGED <<networkStreams, hlsSubscribers, ready, hlsSubTimer, hls,
                   fatal, rtmpVars>>

\* line 45: the outcome of StopStream is ignored
ReaperStopStream(ok) ==
    /\ ~fatal
    /\ reaper.pc = "stop"
    /\ reaper' = [reaper EXCEPT !.pc = "delete",
                                !.log = Append(@, "StopStream"),
                                !.stopErr = ~ok]
    /\ UNCHANGED <<networkStreams, hlsSubscribers, ready, hlsSubTimer, hls,
                   fatal, rtmpVars>>

\* line 46
ReaperDelete ==
    /\ ~fatal
    /\ reaper.pc = "delete"
    /\ hlsSubTimer' = MapDelete(hlsSubTimer, reaper.sid)
    /\ reaper' = [reaper EXCEPT !.pc = "range",
                                !.todo = @ \ {reaper.sid},
                                !.visited = @ \ {reaper.sid}]
    /\ UNCHANGED <<networkStreams, hlsSubscribers, ready, hls, fatal, rtmpVars>>

\* ------------------------------------------------------------------------
\* Time
\* ------------------------------------------------------------------------
\* one second passes
Tick ==
    /\ ~fatal
    /\ hlsSubTimer' = [a \in DOMAIN hlsSubTimer |->
                          min(hlsSubTimer[a] + 1, HLSUnsubscribeWaitLimit + 1)]
    /\ hls' = [p \in HLSProcs |->
          IF hls[p].pc \in {"poll", "sleep"}
          THEN [hls[p] EXCEPT !.since = min(@ + 1, HLSWaitTime + 1),
                              !.sleep = max(@ - 1, 0)]
          ELSE hls[p]]
    /\ reaper' = [reaper EXCEPT !.sleep = max(@ - 1, 0)]
    /\ UNCHANGED <<networkStreams, hlsSubscribers, ready, fatal, rtmpVars>>

\* ------------------------------------------------------------------------
\* HandleRTMPPublish
\* ------------------------------------------------------------------------
\* lines 130-173 without the test of the owner of rtmpStrmID at line 137
RTMPPublishAnyOwner(path, query, rnd1, rnd2, ok1, ok2) ==
    LET parsed == parseStreamID(path)
        rtmpStrmID == IF parsed = <<>> THEN MakeStreamID(SelfAddress, rnd1)
                      ELSE parsed
        hlsStrmID == IF query = <<>> THEN MakeStreamID(SelfAddress, rnd2)
                     ELSE query
        found == GetNetworkStream(rtmpStrmID) # "nil"
        withRaw == IF found THEN networkStreams
                   ELSE AddNewNetworkStream(networkStreams, rtmpStrmID, "RTMP")
        addedRaw == IF found THEN <<>> ELSE <<(<<rtmpStrmID, "RTMP">>)>>
        call == [PubNone EXCEPT !.path = path, !.query = query,
                                !.parsed = parsed]
        failed == [call EXCEPT !.err = "StreamPublishError"]
    IN  /\ ~fatal
        /\ BagCardinality(sessions) < MaxSessions
        /\ IF FALSE
           THEN /\ pub' = failed
                /\ UNCHANGED <<networkStreams, sessions>>
           ELSE IF ~found /\ ~ok1
           THEN /\ pub' = failed
                /\ UNCHANGED <<networkStreams, sessions>>
           ELSE IF SplitComponents(hlsStrmID)[1] # SelfAddress \/ ~ok2
           THEN /\ pub' = [failed EXCEPT !.added = addedRaw]
                /\ networkStreams' = withRaw
                /\ UNCHANGED sessions
           ELSE /\ networkStreams' =
                       AddNewNetworkStream(withRaw, hlsStrmID, "HLS")
                /\ sessions' =
                       sessions (+) SetToBag({<<rtmpStrmID, hlsStrmID>>})
                /\ pub' = [call EXCEPT
                              !.added = addedRaw \o <<(<<hlsStrmID, "HLS">>)>>,
                              !.rtmp = rtmpStrmID, !.hls = hlsStrmID,
                              !.broadcast = <<rtmpStrmID, hlsStrmID>>]
        /\ UNCHANGED <<hlsSubscribers, ready, hlsSubTimer, hls, reaper, fatal,
                       rtmpSubscribers, rtmp>>

\* lines 130-173 without the lookup at line 142: the raw stream is created
\* anew by every call
RTMPPublishNewRaw(path, query, rnd1, rnd2, ok1, ok2) ==
    LET parsed == parseStreamID(path)
        rtmpStrmID == IF parsed = <<>> THEN MakeStreamID(SelfAddress, rnd1)
                      ELSE parsed
        hlsStrmID == IF query = <<>> THEN MakeStreamID(SelfAddress, rnd2)
                     ELSE query
        found == FALSE
        withRaw == IF found THEN networkStreams
                   ELSE AddNewNetworkStream(networkStreams, rtmpStrmID, "RTMP")
        addedRaw == IF found THEN <<>> ELSE <<(<<rtmpStrmID, "RTMP">>)>>
        call == [PubNone EXCEPT !.path = path, !.query = query,
                                !.parsed = parsed]
        failed == [call EXCEPT !.err = "StreamPublishError"]
    IN  /\ ~fatal
        /\ BagCardinality(sessions) < MaxSessions
        /\ IF SplitComponents(rtmpStrmID)[1] # SelfAddress
           THEN /\ pub' = failed
                /\ UNCHANGED <<networkStreams, sessions>>
           ELSE IF ~found /\ ~ok1
           THEN /\ pub' = failed
                /\ UNCHANGED <<networkStreams, sessions>>
           ELSE IF SplitComponents(hlsStrmID)[1] # SelfAddress \/ ~ok2
           THEN /\ pub' = [failed EXCEPT !.added = addedRaw]
                /\ networkStreams' = withRaw
                /\ UNCHANGED sessions
           ELSE /\ networkStreams' =
                       AddNewNetworkStream(withRaw, hlsStrmID, "HLS")
                /\ sessions' =
                       sessions (+) SetToBag({<<rtmpStrmID, hlsStrmID>>})
                /\ pub' = [call EXCEPT
                              !.added = addedRaw \o <<(<<hlsStrmID, "HLS">>)>>,
                              !.rtmp = rtmpStrmID, !.hls = hlsStrmID,
                              !.broadcast = <<rtmpStrmID, hlsStrmID>>]
        /\ UNCHANGED <<hlsSubscribers, ready, hlsSubTimer, hls, reaper, fatal,
                       rtmpSubscribers, rtmp>>

\* lines 130-173, getStream.  query is the hlsStrmID parameter of the URL,
\* rnd1 and rnd2 the random identifiers drawn when an address is minted,
\* ok1 and ok2 whether AddNewNetworkStream succeeds.
RTMPPublish(path, query, rnd1, rnd2, ok1, ok2) ==
    LET parsed == parseStreamID(path)
        rtmpStrmID == IF parsed = <<>> THEN MakeStreamID(SelfAddress, rnd1)
                      ELSE parsed
        hlsStrmID == IF query = <<>> THEN MakeStreamID(SelfAddress, rnd2)
                     ELSE query
        found == GetNetworkStream(rtmpStrmID) # "nil"
        withRaw == IF found THEN networkStreams
                   ELSE AddNewNetworkStream(networkStreams, rtmpStrmID, "RTMP")
        addedRaw == IF found THEN <<>> ELSE <<(<<rtmpStrmID, "RTMP">>)>>
        call == [PubNone EXCEPT !.path = path, !.query = query,
                                !.parsed = parsed]
        failed == [call EXCEPT !.err = "StreamPublishError"]
    IN  /\ ~fatal
        /\ BagCardinality(sessions) < MaxSessions
        /\ IF SplitComponents(rtmpStrmID)[1] # SelfAddress
           THEN /\ pub' = failed
                /\ UNCHANGED <<networkStreams, sessions>>
           ELSE IF ~found /\ ~ok1
           THEN /\ pub' = failed
                /\ UNCHANGED <<networkStreams, sessions>>
           ELSE IF SplitComponents(hlsStrmID)[1] # SelfAddress \/ ~ok2
           THEN /\ pub' = [failed EXCEPT !.added = addedRaw]
                /\ networkStreams' = withRaw
                /\ UNCHANGED sessions
           ELSE /\ networkStreams' =
                       AddNewNetworkStream(withRaw, hlsStrmID, "HLS")
                /\ sessions' =
                       sessions (+) SetToBag({<<rtmpStrmID, hlsStrmID>>})
                /\ pub' = [call EXCEPT
                              !.added = addedRaw \o <<(<<hlsStrmID, "HLS">>)>>,
                              !.rtmp = rtmpStrmID, !.hls = hlsStrmID,
                              !.broadcast = <<rtmpStrmID, hlsStrmID>>]
        /\ UNCHANGED <<hlsSubscribers, ready, hlsSubTimer, hls, reaper, fatal,
                       rtmpSubscribers, rtmp>>

\* Streamer.UnsubscribeAll: every HLS and RTMP subscriber of the stream
UnsubscribeAllHLS(subs, sid) == MapDelete(subs, sid)

UnsubscribeAllRTMP(subs, sid) == {x \in subs : x[1] # sid}

\* lines 176-179 without the UnsubscribeAll calls at lines 180-181
FinishStreamKeepsSubscribers(rtmpStrmID, hlsStrmID) ==
    /\ ~fatal
    /\ BagIn(<<rtmpStrmID, hlsStrmID>>, sessions)
    /\ networkStreams' =
          DeleteNetworkStream(DeleteNetworkStream(networkStreams, rtmpStrmID),
                              hlsStrmID)
    /\ UNCHANGED <<hlsSubscribers, rtmpSubscribers>>
    /\ sessions' = sessions (-) SetToBag({<<rtmpStrmID, hlsStrmID>>})
    /\ pub' = PubNone
    /\ ready' = ready \cap InUse(hlsSubscribers', hls)
    /\ UNCHANGED <<hlsSubTimer, hls, reaper, fatal, rtmp>>

\* lines 176-182, finishStream, called when the publish session ends
FinishStream(rtmpStrmID, hlsStrmID) ==
    /\ ~fatal
    /\ BagIn(<<rtmpStrmID, hlsStrmID>>, sessions)
    /\ networkStreams' =
          DeleteNetworkStream(DeleteNetworkStream(networkStreams, rtmpStrmID),
                              hlsStrmID)
    /\ hlsSubscribers' =
          UnsubscribeAllHLS(UnsubscribeAllHLS(hlsSubscribers, rtmpStrmID),
                            hlsStrmID)
    /\ rtmpSubscribers' =
          UnsubscribeAllRTMP(UnsubscribeAllRTMP(rtmpSubscribers, rtmpStrmID),
                             hlsStrmID)
    /\ sessions' = sessions (-) SetToBag({<<rtmpStrmID, hlsStrmID>>})
    /\ pub' = PubNone
    /\ ready' = ready \cap InUse(hlsSubscribers', hls)
    /\ UNCHANGED <<hlsSubTimer, hls, reaper, fatal, rtmp>>

\* ------------------------------------------------------------------------
\* HandleRTMPPlay
\* ------------------------------------------------------------------------
\* lines 189-220 without the test of strm at line 205
RTMPBeginForwardsAlways(q, reqPath, subID, ok) ==
    LET match == FindString(reqPath)
        strmID == IF match # <<>> THEN RemoveAll(match, StreamPrefix)
                  ELSE <<>>
        call == [RTMPIdle EXCEPT !.strmID = strmID]
        fwd == 1
    IN  /\ ~fatal
        /\ rtmp[q].pc \in {"idle", "done"}
        /\ IF strmID = <<>>
           THEN /\ rtmp' = [rtmp EXCEPT ![q] =
                       [call EXCEPT !.pc = "done", !.err = "Stream Not Found"]]
                /\ UNCHANGED <<rtmpSubscribers, networkStreams>>
           ELSE IF ~ok
           THEN /\ rtmp' = [rtmp EXCEPT ![q] =
                       [call EXCEPT !.pc = "done", !.consume = 1, !.fwd = fwd,
                                    !.subID = subID, !.err = "SubscribeError"]]
                /\ UNCHANGED <<rtmpSubscribers, networkStreams>>
           ELSE /\ rtmp' = [rtmp EXCEPT ![q] =
                       [call EXCEPT !.pc = "copy", !.consume = 1, !.fwd = fwd,
                                    !.subID = subID]]
                /\ rtmpSubscribers' = rtmpSubscribers \cup {<<strmID, subID>>}
                /\ networkStreams' =
                       StreamsAfterSubscribe(networkStreams, strmID, "RTMP")
        /\ UNCHANGED <<hlsSubscribers, ready, hlsSubTimer, hls, reaper, fatal,
                       sessions, pub>>

\* lines 189-220: parse, log the consumption, forward, subscribe a new queue
RTMPBegin(q, reqPath, subID, ok) ==
    LET match == FindString(reqPath)
        strmID == IF match # <<>> THEN RemoveAll(match, StreamPrefix)
                  ELSE <<>>
        call == [RTMPIdle EXCEPT !.strmID = strmID]
        fwd == IF GetNetworkStream(strmID) = "nil" THEN 1 ELSE 0
    IN  /\ ~fatal
        /\ rtmp[q].pc \in {"idle", "done"}
        /\ IF strmID = <<>>
           THEN /\ rtmp' = [rtmp EXCEPT ![q] =
                       [call EXCEPT !.pc = "done", !.err = "Stream Not Found"]]
                /\ UNCHANGED <<rtmpSubscribers, networkStreams>>
           ELSE IF ~ok
           THEN /\ rtmp' = [rtmp EXCEPT ![q] =
                       [call EXCEPT !.pc = "done", !.consume = 1, !.fwd = fwd,
                                    !.subID = subID, !.err = "SubscribeError"]]
                /\ UNCHANGED <<rtmpSubscribers, networkStreams>>
           ELSE /\ rtmp' = [rtmp EXCEPT ![q] =
                       [call EXCEPT !.pc = "copy", !.consume = 1, !.fwd = fwd,
                                    !.subID = subID]]
                /\ rtmpSubscribers' = rtmpSubscribers \cup {<<strmID, subID>>}
                /\ networkStreams' =
                       StreamsAfterSubscribe(networkStreams, strmID, "RTMP")
        /\ UNCHANGED <<hlsSubscribers, ready, hlsSubTimer, hls, reaper, fatal,
                       sessions, pub>>

\* lines 221-227 without the UnsubscribeToRTMPStream call at line 223
RTMPCopyEndKeepsQueue(q, copyErr) ==
    /\ ~fatal
    /\ rtmp[q].pc = "copy"
    /\ rtmp' = [rtmp EXCEPT ![q].pc = "done", ![q].err = copyErr,
                            ![q].log = <<"StopStream">>]
    /\ UNCHANGED <<networkStreams, hlsSubscribers, ready, hlsSubTimer, hls,
                   reaper, fatal, rtmpSubscribers, sessions, pub>>

\* lines 221-227: avutil.CopyFile ended with copyErr; unsubscribe, stop
RTMPCopyEnd(q, copyErr) ==
    /\ ~fatal
    /\ rtmp[q].pc = "copy"
    /\ rtmpSubscribers' = rtmpSubscribers \ {<<rtmp[q].strmID, rtmp[q].subID>>}
    /\ rtmp' = [rtmp EXCEPT ![q].pc = "done", ![q].err = copyErr,
                            ![q].log = <<"UnsubscribeToRTMPStream",
                                         "StopStream">>]
    /\ UNCHANGED <<networkStreams, hlsSubscribers, ready, hlsSubTimer, hls,
                   reaper, fatal, sessions, pub>>

\* ------------------------------------------------------------------------
\* Specifications
\* ------------------------------------------------------------------------
\* a playback call once it is under way
HLSRun(p, crashes) ==
    \/ HLSGetMuxer(p)
    \/ \E ok \in BOOLEAN : HLSSubscribe(p, ok)
    \/ HLSPoll(p)
    \/ \E crash \in crashes : HLSRefresh(p, crash)
    \/ HLSWake(p)

HLSTask(p, paths) ==
    \/ \E reqPath \in paths : HLSBegin(p, reqPath)
    \/ HLSRun(p, BOOLEAN)

Reaper ==
    \/ ReaperWake
    \/ \E sid \in StreamIDs : ReaperNext(sid)
    \/ ReaperEnd
    \/ ReaperUnsubscribe
    \/ \E ok \in BOOLEAN : ReaperStopStream(ok)
    \/ ReaperDelete

Publisher(paths, queries, rnds, oks) ==
    \/ \E path \in paths, query \in queries, rnd1, rnd2 \in rnds,
          ok1, ok2 \in oks :
          RTMPPublish(path, query, rnd1, rnd2, ok1, ok2)
    \/ \E s \in BagToSet(sessions) : FinishStream(s[1], s[2])

\* a publisher that starts a session only when its last one has finished
SinglePublisher(paths, queries, rnds, oks) ==
    \/ /\ sessions = EmptyBag
       /\ \E path \in paths, query \in queries, rnd1, rnd2 \in rnds,
             ok1, ok2 \in oks :
             RTMPPublish(path, query, rnd1, rnd2, ok1, ok2)
    \/ \E s \in BagToSet(sessions) : FinishStream(s[1], s[2])

\* streaming.RandomStreamID draws a token no running playback holds
FreshSubIDs ==
    RandomStreamIDs \ {rtmp[q].subID : q \in {r \in RTMPProcs : rtmp[r].pc = "copy"}}

RTMPTask(q, paths) ==
    \/ \E reqPath \in paths, subID \in FreshSubIDs, ok \in BOOLEAN :
          RTMPBegin(q, reqPath, subID, ok)
    \/ \E copyErr \in {"nil", "EOF"} : RTMPCopyEnd(q, copyErr)

\* The reaper beside HLS playback of one address, publish sessions of that
\* address, and time.
Next ==
    \/ HLSTask(1, {PathSelf})
    \/ \E b \in BufferIDs : BufferFill(b)
    \/ Reaper
    \/ SinglePublisher({PathNoMatch}, {parseStreamID(PathSelf)}, {<<"2">>},
                       {TRUE})
    \/ Tick

Spec == Init /\ [][Next]_vars

\* The reaper beside HLS playback of a remote address, with the scheduling
\* the Go runtime gives: every goroutine that can take a step takes it in
\* the end, and time passes.  Requests and segments arrive as they please.
NextFair ==
    \/ \E reqPath \in {PathRemote} : HLSBegin(1, reqPath)
    \/ HLSRun(1, {FALSE})
    \/ \E b \in BufferIDs : BufferFill(b)
    \/ Reaper
    \/ Tick

FairSpec ==
    /\ Init
    /\ [][NextFair]_vars
    /\ WF_vars(HLSRun(1, {FALSE}))
    /\ WF_vars(Reaper)
    /\ WF_vars(Tick)

\* One HLS and one RTMP playback request at a time, over every path.
NextCall ==
    \/ HLSTask(1, HLSPaths)
    \/ \E b \in BufferIDs : BufferFill(b)
    \/ RTMPTask(1, {PathRemote, PathNoMatch, PathNoID})
    \/ Tick

CallSpec == Init /\ [][NextCall]_vars

\* The same within one instant: no time passes, no sleep ends.
NextNow ==
    \/ \E p \in HLSProcs, reqPath \in {PathRemote} : HLSBegin(p, reqPath)
    \/ \E p \in HLSProcs : HLSGetMuxer(p)
    \/ \E p \in HLSProcs, ok \in BOOLEAN : HLSSubscribe(p, ok)
    \/ \E p \in HLSProcs : HLSPoll(p)
    \/ \E p \in HLSProcs, crash \in BOOLEAN : HLSRefresh(p, crash)
    \/ \E b \in BufferIDs : BufferFill(b)

NowSpec == Init /\ [][NextNow]_vars

RemoteID == parseStreamID(PathRemote)

SelfID == parseStreamID(PathSelf)

\* The state a first playback call of the remote address leaves behind: its
\* buffer is subscribed and has segments, the call has returned it.
InitReady ==
    /\ networkStreams = MapSet(<<>>, RemoteID, "HLS")
    /\ hlsSubscribers = MapSet(<<>>, RemoteID, 1)
    /\ ready = {1}
    /\ hlsSubTimer = MapSet(<<>>, RemoteID, 0)
    /\ hls = [p \in HLSProcs |->
                IF p = 1
                THEN [HLSIdle EXCEPT !.pc = "done", !.strmID = RemoteID,
                                     !.hlsBuffer = 1, !.created = 1,
                                     !.fwd = 1, !.polls = 1, !.wrote = 1]
                ELSE HLSIdle]
    /\ reaper = ReaperIdle
    /\ fatal = FALSE
    /\ rtmpSubscribers = {}
    /\ rtmp = [q \in RTMPProcs |-> RTMPIdle]
    /\ sessions = EmptyBag
    /\ pub = PubNone

\* Concurrent playback calls of an address whose buffer is subscribed and
\* ready: no call subscribes, no call sleeps.
NextReady ==
    \/ \E p \in HLSProcs, reqPath \in {PathRemote} : HLSBegin(p, reqPath)
    \/ \E p \in HLSProcs : HLSGetMuxer(p)
    \/ \E p \in HLSProcs : HLSPoll(p)
    \/ \E p \in HLSProcs, crash \in BOOLEAN : HLSRefresh(p, crash)
    \/ Tick

ReadySpec == InitReady /\ [][NextReady]_vars

\* The publish handler alone: sessions start over every kind of URL and end.
PubPaths == {PathSelf, PathRemote, PathNoMatch}

PubQueries == {<<>>, <<"s", "5">>, <<"r", "5">>}

\* streaming.RandomStreamID for the addresses getStream mints
PubTokens == {<<"2">>, <<"3">>, <<"4">>, <<"6">>}

\* the tokens that make an address the table does not hold yet
FreshTokens ==
    {t \in PubTokens : MakeStreamID(SelfAddress, t) \notin DOMAIN networkStreams}

NextPub ==
    \/ \E path \in PubPaths, query \in PubQueries,
          rnd1, rnd2 \in FreshTokens, ok1, ok2 \in BOOLEAN :
          /\ rnd1 # rnd2
          /\ RTMPPublish(path, query, rnd1, rnd2, ok1, ok2)
    \/ \E s \in BagToSet(sessions) : FinishStream(s[1], s[2])

PubSpec == Init /\ [][NextPub]_vars

\* One publish session at a time, with a minted raw address and the packaged
\* address s1, beside an HLS viewer of the packaged stream and RTMP viewers
\* of the raw stream, within one instant: no time passes, no sleep ends.
PathRaw == StreamPrefix \o <<"s", "2">>

RawID == parseStreamID(PathRaw)

NextSession ==
    \/ \E reqPath \in {PathSelf} : HLSBegin(1, reqPath)
    \/ HLSGetMuxer(1)
    \/ \E ok \in BOOLEAN : HLSSubscribe(1, ok)
    \/ HLSPoll(1)
    \/ \E crash \in BOOLEAN : HLSRefresh(1, crash)
    \/ \E b \in BufferIDs : BufferFill(b)
    \/ \E q \in RTMPProcs : RTMPTask(q, {PathRaw})
    \/ SinglePublisher({PathNoMatch}, {SelfID}, {<<"2">>}, {TRUE})

SessionSpec == Init /\ [][NextSession]_vars

\* The same over time, with one RTMP viewer whose subscription succeeds.
NextFrame ==
    \/ HLSTask(1, {PathSelf})
    \/ \E b \in BufferIDs : BufferFill(b)
    \/ \E reqPath \in {PathRaw}, subID \in {<<"2">>}, ok \in {TRUE} :
          RTMPBegin(1, reqPath, subID, ok)
    \/ \E copyErr \in {"EOF"} : RTMPCopyEnd(1, copyErr)
    \/ SinglePublisher({PathNoMatch}, {SelfID}, {<<"2">>}, {TRUE})
    \/ Tick

FrameSpec == Init /\ [][NextFrame]_vars

\* getStream over paths put together from a head, /stream/ or nothing, a run
\* of alphanumerics and a tail.
ParseHeads ==
    {<<>>, <<"/", "x">>, StreamPrefix, <<"/", "s", "t", "r", "e", "a", "m">>}

ParseRuns ==
    {<<>>, <<"s", "1">>, <<"r", "1">>, <<"a">>,
     <<"s", "t", "r", "e", "a", "m">>}

ParseTails ==
    {<<>>, <<"/">>, <<".", "m">>, <<"/", "x">>, StreamPrefix \o <<"s", "2">>}

ParsePaths ==
    {h \o c \o r \o t : h \in ParseHeads, c \in {<<>>, StreamPrefix},
                        r \in ParseRuns, t \in ParseTails}

NextParse == SinglePublisher(ParsePaths, {<<"s", "5">>}, {<<"2">>}, {TRUE})

ParseSpec == Init /\ [][NextParse]_vars

\* ------------------------------------------------------------------------
\* Properties
\* ------------------------------------------------------------------------
HasEntry(a) == a \in DOMAIN hlsSubTimer

HasLocalSub(a) == a \in DOMAIN hlsSubscribers

Stale(a) == HasEntry(a) /\ hlsSubTimer[a] > HLSUnsubscribeWaitLimit

\* C1: in every reachable state the activity map has an entry for an
\* address exactly when a "local" HLS subscription of that address is
\* registered.
C1_EntryIffSubscribed ==
    \A a \in StreamIDs : HasEntry(a) <=> HasLocalSub(a)

\* C2: whenever the reaper is about to unsubscribe an address or to delete
\* its entry, the timestamp stored for the address is older than the idle
\* limit.
C2_EvictedEntryIsStale ==
    reaper.pc \in {"unsub", "delete"} => Stale(reaper.sid)

\* the buffer instances that exist for address a: the registered one and
\* those the playback calls hold
BuffersOf(a) ==
    (IF HasLocalSub(a) THEN {hlsSubscribers[a]} ELSE {}) \cup
    {hls[p].hlsBuffer : p \in {q \in HLSProcs : /\ hls[q].strmID = a
                                                /\ hls[q].hlsBuffer # NoBuffer}}

\* C3: at most one HLS buffer instance exists for an address, and a call
\* that has made a new buffer and is about to subscribe it does so only
\* while the address has no "local" subscription.
C3_OneBufferPerAddress ==
    /\ \A a \in StreamIDs : Cardinality(BuffersOf(a)) <= 1
    /\ \A p \in HLSProcs :
          hls[p].pc = "subscribe" => ~HasLocalSub(hls[p].strmID)

EvictionCalls == <<"UnsubscribeToHLSStream", "StopStream">>

\* C4: an eviction starts only on a stale entry, issues UnsubscribeToHLSStream
\* once, then StopStream once, then deletes the entry, and does so whatever
\* StopStream returned.
C4_EvictionSequence ==
    [][/\ (reaper.pc = "range" /\ reaper'.pc = "unsub") =>
              /\ Stale(reaper'.sid)
              /\ reaper'.log = <<>>
       /\ (reaper.pc = "unsub" /\ reaper' # reaper) =>
              /\ reaper'.pc = "stop"
              /\ reaper'.sid = reaper.sid
              /\ reaper'.log = SubSeq(EvictionCalls, 1, 1)
              /\ ~HasLocalSub(reaper.sid)'
       /\ (reaper.pc = "stop" /\ reaper' # reaper) =>
              /\ reaper'.pc = "delete"
              /\ reaper'.sid = reaper.sid
              /\ reaper'.log = EvictionCalls
       /\ (reaper.pc = "delete" /\ reaper' # reaper) =>
              /\ reaper'.pc = "range"
              /\ reaper'.log = EvictionCalls
              /\ ~HasEntry(reaper.sid)'
      ]_vars

\* C4: the reaper has finished an eviction whose StopStream failed.
C4_Witness ==
    /\ reaper.pc = "range"
    /\ reaper.log = EvictionCalls
    /\ reaper.stopErr
    /\ ~HasEntry(reaper.sid)

\* a playback call of address a returns its buffer
Succeeds(a) ==
    \E p \in HLSProcs : /\ hls[p].strmID = a
                        /\ hls[p].pc = "refresh"
                        /\ hls'[p].pc = "done"

\* C5: if the remote address has an activity entry and, from some point on,
\* no playback call of it succeeds, then eventually it has neither an entry
\* nor a "local" subscription.
C5_IdleEntryRemoved ==
    ([]<><<Succeeds(RemoteID)>>_vars) \/
    [](HasEntry(RemoteID) => <>(~HasEntry(RemoteID) /\ ~HasLocalSub(RemoteID)))

\* both components of the address are there
ValidID(sid) ==
    /\ sid # <<>>
    /\ SplitComponents(sid)[1] # <<>>
    /\ SplitComponents(sid)[2] # <<>>

OwnerOf(sid) == SplitComponents(sid)[1]

\* task p starts a playback call in this step
Begins(p) == hls[p].pc \in {"idle", "done"} /\ hls'[p] # hls[p]

\* C6: a playback call for a valid address of this node whose NetworkStream
\* is absent returns NotFound at once: Forwarder.Stream is not called, no
\* buffer is made or subscribed, no activity entry is written.
C6_OwnMissingStreamNotFound ==
    [][\A p \in HLSProcs :
          (/\ Begins(p)
           /\ ValidID(hls'[p].strmID)
           /\ OwnerOf(hls'[p].strmID) = SelfAddress
           /\ GetNetworkStream(hls'[p].strmID) = "nil") =>
             /\ hls'[p].pc = "done"
             /\ hls'[p].err = "NotFound"
             /\ hls'[p].fwd = 0
             /\ hls'[p].created = 0
             /\ hls'[p].hlsBuffer = NoBuffer
             /\ hls'[p].wrote = 0
             /\ UNCHANGED <<hlsSubscribers, hlsSubTimer, networkStreams>>
      ]_vars

\* C6: such a call has returned, while the address still has the entry and
\* the subscription an earlier viewer left.
C6_Witness ==
    /\ hls[1].pc = "done"
    /\ hls[1].strmID = SelfID
    /\ hls[1].err = "NotFound"
    /\ hls[1].polls = 0
    /\ GetNetworkStream(SelfID) = "nil"
    /\ HasEntry(SelfID)

\* C7: a playback call for a valid address calls Forwarder.Stream once, when
\* it starts, if the stream is absent and owned by another node, and goes on
\* to the buffer lookup in the same step; it never calls it if the stream is
\* present; no later step of the call forwards again.
C7_ForwardsOncePerCall ==
    [][\A p \in HLSProcs :
          /\ (/\ Begins(p)
              /\ ValidID(hls'[p].strmID)
              /\ OwnerOf(hls'[p].strmID) # SelfAddress
              /\ GetNetworkStream(hls'[p].strmID) = "nil") =>
                 /\ hls'[p].fwd = 1
                 /\ hls'[p].pc = "getMuxer"
          /\ (/\ Begins(p)
              /\ ValidID(hls'[p].strmID)
              /\ GetNetworkStream(hls'[p].strmID) # "nil") =>
                 /\ hls'[p].fwd = 0
                 /\ hls'[p].pc = "getMuxer"
          /\ ~Begins(p) => hls'[p].fwd = hls[p].fwd
      ]_vars

\* C7: a call that forwarded has returned its buffer.
C7_Witness ==
    /\ hls[1].pc = "done"
    /\ hls[1].strmID = RemoteID
    /\ hls[1].err = ""
    /\ hls[1].fwd = 1
    /\ hls[1].hlsBuffer # NoBuffer

\* C8: an HLS call whose address is empty or lacks a component, and an RTMP
\* call whose address is empty, return NotFound, and have called neither the
\* forwarder nor the registry nor the observability sink, and written no
\* activity entry.
C8_NoAddressIsNotFound ==
    /\ \A p \in HLSProcs :
          (hls[p].pc # "idle" /\ ~ValidID(hls[p].strmID)) =>
             /\ hls[p].pc = "done"
             /\ hls[p].err = "NotFound"
             /\ hls[p].fwd = 0
             /\ hls[p].created = 0
             /\ hls[p].wrote = 0
    /\ \A q \in RTMPProcs :
          (rtmp[q].pc # "idle" /\ rtmp[q].strmID = <<>>) =>
             /\ rtmp[q].pc = "done"
             /\ rtmp[q].err = "NotFound"
             /\ rtmp[q].fwd = 0
             /\ rtmp[q].consume = 0
             /\ rtmp[q].subID = <<>>

\* the call of task p has given up waiting for the playlist
TimedOut(p) ==
    /\ hls[p].pc = "done"
    /\ hls[p].err = "NotFound"
    /\ hls[p].polls > 0

\* C9 as claimed: a call that gives up has waited longer than HLSWaitTime,
\* has polled exactly HLSWaitTime / 2s = 5 times and has written no entry.
C9_ExactlyFivePolls ==
    \A p \in HLSProcs :
       TimedOut(p) => /\ hls[p].since > HLSWaitTime
                      /\ hls[p].polls = HLSWaitTime \div HLSPollSleep
                      /\ hls[p].wrote = 0

\* C9 as amended: a call that gives up has waited longer than HLSWaitTime,
\* has polled at least once and at most HLSWaitTime / 2s + 1 = 6 times, and
\* has written no entry; no call polls more often than that.
C9_AtMostSixPolls ==
    \A p \in HLSProcs :
       /\ hls[p].polls <= HLSWaitTime \div HLSPollSleep + 1
       /\ TimedOut(p) => /\ hls[p].since > HLSWaitTime
                         /\ hls[p].polls >= 1
                         /\ hls[p].wrote = 0

\* C9: a call has given up after six polls.
C9_Witness ==
    /\ TimedOut(1)
    /\ hls[1].polls = HLSWaitTime \div HLSPollSleep + 1

\* C10: with a ready buffer subscribed for the address, two concurrent
\* playback calls both return that buffer and both refresh the entry:
\* every call that has looked the buffer up holds the subscribed, ready
\* buffer, a call that has returned has returned it without error after one
\* poll and has written the entry, and two calls that are both about to
\* write the entry are not cut short by the runtime.
C10_BothReturnReadyBuffer ==
    /\ \A p \in HLSProcs :
          /\ hls[p].pc \in {"poll", "refresh", "done"} =>
                /\ hls[p].hlsBuffer = GetHLSMuxer(RemoteID)
                /\ hls[p].hlsBuffer \in ready
          /\ hls[p].pc = "done" =>
                /\ hls[p].err = ""
                /\ hls[p].polls = 1
                /\ hls[p].wrote = 1
                /\ HasEntry(RemoteID)
    /\ (\A p \in HLSProcs : hls[p].pc = "refresh") => ~fatal

\* C11: a getStream call whose path gives a raw address that another node
\* owns returns StreamPublishError, has created no NetworkStream, raw or
\* packaged, has sent no broadcast event and has returned no stream.
C11_ForeignRawRejected ==
    (pub.parsed # <<>> /\ OwnerOf(pub.parsed) # SelfAddress) =>
        /\ pub.err = "StreamPublishError"
        /\ pub.added = <<>>
        /\ pub.broadcast = <<>>
        /\ pub.rtmp = <<>>
        /\ pub.hls = <<>>

\* C11: such a call was rejected while an earlier session's streams exist.
C11_Witness ==
    /\ pub.parsed = RemoteID
    /\ pub.err = "StreamPublishError"
    /\ pub.added = <<>>
    /\ networkStreams # <<>>

\* a getStream call returns its two streams in this step
PublishSucceeds == BagCardinality(sessions') > BagCardinality(sessions)

\* ... and the getStream call before it, with no finishStream in between,
\* returned the same raw address
SecondPublish ==
    /\ PublishSucceeds
    /\ pub.err = ""
    /\ pub.rtmp # <<>>
    /\ pub'.rtmp = pub.rtmp

\* C12 as claimed: the second of two getStream calls with the same raw
\* address reuses the raw NetworkStream (no AddNewNetworkStream for it, its
\* record is unchanged) and creates a packaged stream of its own, so that
\* two distinct packaged streams are in the table afterwards.
C12_TwoPackagedStreams ==
    [][SecondPublish =>
          /\ pub.rtmp \in DOMAIN networkStreams
          /\ networkStreams'[pub.rtmp] = networkStreams[pub.rtmp]
          /\ pub'.added = <<(<<pub'.hls, "HLS">>)>>
          /\ pub'.hls # pub.hls
          /\ \A h \in {pub.hls, pub'.hls} :
                h \in DOMAIN networkStreams' /\ networkStreams'[h] = "HLS"
      ]_vars

\* C12 as amended: the second call reuses the raw NetworkStream and creates
\* a packaged stream at its packaged address; two distinct packaged streams
\* are in the table afterwards when the packaged addresses of the two calls
\* differ.
C12_TwoPackagedIfAddressesDiffer ==
    [][SecondPublish =>
          /\ pub.rtmp \in DOMAIN networkStreams
          /\ networkStreams'[pub.rtmp] = networkStreams[pub.rtmp]
          /\ pub'.added = <<(<<pub'.hls, "HLS">>)>>
          /\ networkStreams'[pub'.hls] = "HLS"
          /\ pub'.hls # pub.hls =>
                \A h \in {pub.hls, pub'.hls} :
                   h \in DOMAIN networkStreams' /\ networkStreams'[h] = "HLS"
      ]_vars

\* C12: two sessions of one raw address with two packaged streams are open,
\* the later call having created the packaged stream only.
C12_Witness ==
    /\ pub.err = ""
    /\ pub.added = <<(<<pub.hls, "HLS">>)>>
    /\ \E x \in BagToSet(sessions) :
          /\ x[1] = pub.rtmp
          /\ x[2] # pub.hls
          /\ {x[1], x[2], pub.hls} \subseteq DOMAIN networkStreams
          /\ networkStreams[x[1]] = "RTMP"
          /\ networkStreams[x[2]] = "HLS"

\* finishStream runs for the session x in this step
Finishes(x) == CopiesIn(x, sessions') < CopiesIn(x, sessions)

C14_FinishRemovesEntry ==
    [][\A x \in BagToSet(sessions) :
          Finishes(x) => \A a \in {x[1], x[2]} : a \notin DOMAIN hlsSubTimer'
      ]_vars

\* the queue subscription of the RTMP playback q
QueueOf(q) == <<rtmp[q].strmID, rtmp[q].subID>>

\* the copy loop of the RTMP playback q ends in this step
CopyEnds(q) == rtmp[q].pc = "copy" /\ rtmp'[q].pc # "copy"

\* what the handler does and returns when its copy loop ends, and that it
\* returns in no other way once it has subscribed
AfterCopy(q) ==
    /\ CopyEnds(q) =>
          /\ rtmp'[q].pc = "done"
          /\ rtmp'[q].log = <<"UnsubscribeToRTMPStream", "StopStream">>
          /\ rtmp'[q].err \in {"nil", "EOF"}
          /\ QueueOf(q) \notin rtmpSubscribers'
    /\ (rtmp[q].pc # "done" /\ rtmp'[q].pc = "done" /\ ~CopyEnds(q)) =>
          /\ rtmp'[q].err \in {"Stream Not Found", "SubscribeError"}
          /\ rtmp'[q].log = <<>>
          /\ rtmpSubscribers' = rtmpSubscribers

\* C15 as claimed: the queue of a playback whose subscription succeeded is
\* registered in every step until its copy loop ends; when the loop ends
\* the handler unsubscribes the queue once, then calls StopStream once, and
\* returns the error of the loop; it returns in no other way.
C15_QueueRegisteredUntilCopyEnds ==
    [][\A q \in RTMPProcs :
          /\ rtmp'[q].pc = "copy" => QueueOf(q)' \in rtmpSubscribers'
          /\ AfterCopy(q)
      ]_vars

\* C15 as amended: while the copy loop runs, only finishStream for the
\* address of the queue removes the queue from the registry; the rest as
\* claimed.
C15_QueueRegisteredUntilCopyEndsOrFinish ==
    [][\A q \in RTMPProcs :
          /\ (rtmp[q].pc # "copy" /\ rtmp'[q].pc = "copy") =>
                QueueOf(q)' \in rtmpSubscribers'
          /\ (/\ rtmp[q].pc = "copy"
              /\ rtmp'[q].pc = "copy"
              /\ QueueOf(q) \in rtmpSubscribers
              /\ QueueOf(q) \notin rtmpSubscribers') =>
                \E x \in BagToSet(sessions) :
                   Finishes(x) /\ rtmp[q].strmID \in {x[1], x[2]}
          /\ AfterCopy(q)
      ]_vars

\* C15: a playback whose queue was registered to the end has returned the
\* error of its copy loop after the two calls.
C15_Witness ==
    /\ rtmp[1].pc = "done"
    /\ rtmp[1].err = "EOF"
    /\ rtmp[1].log = <<"UnsubscribeToRTMPStream", "StopStream">>
    /\ rtmp[1].strmID = RawID
    /\ RawID \in DOMAIN networkStreams
    /\ \A y \in rtmpSubscribers : y[1] # RawID

\* the RTMP playback q starts a call in this step
RTMPBegins(q) == rtmp[q].pc \in {"idle", "done"} /\ rtmp'[q] # rtmp[q]

\* C16: an RTMP playback call with an address calls Forwarder.Stream once,
\* when it starts, if the address has no NetworkStream, and never if it has
\* one; in the same step it subscribes a queue no one else holds, or returns
\* the error of the subscription; no later step of the call forwards.
C16_RTMPForwardsOncePerCall ==
    [][\A q \in RTMPProcs :
          /\ (RTMPBegins(q) /\ rtmp'[q].strmID # <<>>) =>
                /\ GetNetworkStream(rtmp'[q].strmID) = "nil" =>
                      rtmp'[q].fwd = 1
                /\ GetNetworkStream(rtmp'[q].strmID) # "nil" =>
                      rtmp'[q].fwd = 0
                /\ \/ /\ rtmp'[q].pc = "copy"
                      /\ QueueOf(q)' \notin rtmpSubscribers
                      /\ rtmpSubscribers' = rtmpSubscribers \cup {QueueOf(q)'}
                   \/ /\ rtmp'[q].pc = "done"
                      /\ rtmp'[q].err = "SubscribeError"
                      /\ rtmpSubscribers' = rtmpSubscribers
          /\ ~RTMPBegins(q) => rtmp'[q].fwd = rtmp[q].fwd
      ]_vars

\* C16: a call that forwarded holds its queue subscription.
C16_Witness ==
    /\ rtmp[1].pc = "copy"
    /\ rtmp[1].strmID = RemoteID
    /\ rtmp[1].fwd = 1
    /\ QueueOf(1) \in rtmpSubscribers

\* the reaper is inside its loop over hlsSubTimer (lines 42-48)
ReaperIterates == reaper.pc \in {"range", "unsub", "stop", "delete"}

\* C17: accesses to the activity map exclude each other: no playback call
\* is at its write of hlsSubTimer while the reaper iterates over the map or
\* deletes from it, or while another playback call is at its write.
C17_MapAccessesExclusive ==
    \A p \in HLSProcs :
       hls[p].pc = "refresh" =>
          /\ ~ReaperIterates
          /\ \A r \in HLSProcs \ {p} : hls[r].pc # "refresh"

\* the activity map one second later: the same timestamps, one second older
Aged(m) ==
    [a \in DOMAIN m |-> min(m[a] + 1, HLSUnsubscribeWaitLimit + 1)]

\* the playback call p returns its buffer in this step
Returns(p) == hls[p].pc = "refresh" /\ hls'[p].pc = "done"

\* C18: a playback call that returns a buffer has set the entry of its
\* address to the current time, and nothing else writes a timestamp: in
\* every other step the map keeps its timestamps (they only grow older as
\* time passes), whether the step is a failed poll, a failed call, a
\* publish callback or an RTMP playback.
C18_OnlySuccessfulCallsWriteTimestamps ==
    [][/\ \A p \in HLSProcs :
             Returns(p) =>
                /\ hls'[p].err = ""
                /\ hls'[p].hlsBuffer # NoBuffer
                /\ hls[p].strmID \in DOMAIN hlsSubTimer'
                /\ hlsSubTimer'[hls[p].strmID] = 0
       /\ \/ hlsSubTimer' = Aged(hlsSubTimer)
          \/ \A a \in DOMAIN hlsSubTimer' :
                \/ a \in DOMAIN hlsSubTimer /\ hlsSubTimer'[a] = hlsSubTimer[a]
                \/ \E p \in HLSProcs : Returns(p) /\ hls[p].strmID = a
      ]_vars

\* C18: a call has returned its buffer and written the entry a moment ago,
\* with a publish session open and an RTMP viewer copying.
C18_Witness ==
    /\ hls[1].pc = "done"
    /\ hls[1].err = ""
    /\ hls[1].wrote = 1
    /\ HasEntry(SelfID)
    /\ hlsSubTimer[SelfID] = 0
    /\ sessions # EmptyBag
    /\ rtmp[1].pc = "copy"

\* the positions of path where /stream/ stands
Occurrences(path) ==
    {i \in 1..Len(path) : HasAt(path, StreamPrefix, i)}

\* the alphanumerics of path that follow the /stream/ at position i, up to
\* the first other character or the end
RunAt(path, i) ==
    LET from == i + Len(StreamPrefix)
        n == CHOOSE m \in 0..Len(path) :
                /\ \A k \in 0..(m - 1) :
                      from + k <= Len(path) /\ IsAlnum(path[from + k])
                /\ ~(from + m <= Len(path) /\ IsAlnum(path[from + m]))
    IN  SubSeq(path, from, from + n - 1)

\* the smallest element of a set of positions
First(positions) == CHOOSE i \in positions : \A j \in positions : i <= j

\* the positions of path where /stream/ and an alphanumeric stand
Shapes(path) == {i \in Occurrences(path) : RunAt(path, i) # <<>>}

\* C19: parseStreamID returns the empty address for a path with no
\* /stream/<alnum> in it, and for a path with one the alphanumerics that
\* follow its /stream/.
C19_ParseFindsShape ==
    pub.parsed = IF Shapes(pub.path) = {} THEN <<>>
                 ELSE RunAt(pub.path, First(Shapes(pub.path)))

\* What parseStreamID computes: the alphanumerics that follow the first
\* /stream/ of the path, wherever it stands and whatever comes after them;
\* the empty address when the path has no /stream/ or when no alphanumeric
\* follows the first one.
ParseFirstOccurrence ==
    pub.parsed = IF Occurrences(pub.path) = {} THEN <<>>
                 ELSE RunAt(pub.path, First(Occurrences(pub.path)))

\* a step in which getStream returns ErrStreamPublish
PublishFails == pub'.err = "StreamPublishError"

\* C20: a getStream call that returns ErrStreamPublish leaves the table of
\* network streams as it was before the call.
C20_FailedPublishLeavesTable ==
    [][PublishFails => networkStreams' = networkStreams]_vars

\* the handler of task p has just called forwarder.Stream (line 83)
HLSForwarded(p) == hls[p].pc = "getMuxer" /\ hls[p].fwd = 1

\* the reaper has just called forwarder.StopStream(a, HLS) (line 45)
HLSStopped(a) == reaper.pc = "delete" /\ reaper.sid = a

\* C21: after an HLS playback has called forwarder.Stream for the remote
\* address, forwarder.StopStream is eventually called for that address as
\* HLS, also when the call goes on to fail at the subscription or to time
\* out waiting for the playlist; unless playback requests keep coming for
\* ever.
C21_ForwardEventuallyStopped ==
    ([]<><<Begins(1)>>_vars) \/ (HLSForwarded(1) ~> HLSStopped(RemoteID))

\* C22: when a playback call returns a buffer (line 113), that buffer is
\* the one subscribed as "local" for the address of the call.
C22_ReturnedBufferIsSubscribed ==
    [][\A p \in HLSProcs :
          (hls[p].pc = "refresh" /\ hls'[p].pc = "done") =>
             /\ hls[p].strmID \in DOMAIN hlsSubscribers'
             /\ hlsSubscribers'[hls[p].strmID] = hls'[p].hlsBuffer]_vars

\* another RTMP playback of the address of q is in its copy loop and its
\* queue is subscribed
OtherViewer(q) ==
    \E r \in RTMPProcs \ {q} :
       /\ rtmp[r].pc = "copy"
       /\ rtmp[r].strmID = rtmp[q].strmID
       /\ QueueOf(r) \in rtmpSubscribers

\* C23: the teardown of an RTMP playback (lines 222-226) removes its own
\* queue subscription and no other, and it does not call
\* forwarder.StopStream for the address while another RTMP playback of the
\* address holds a subscribed queue.
C23_ViewersDoNotDisturb ==
    [][\A q \in RTMPProcs :
          CopyEnds(q) =>
             /\ rtmpSubscribers' = rtmpSubscribers \ {QueueOf(q)}
             /\ "StopStream" \in {rtmp'[q].log[i] :
                                     i \in DOMAIN rtmp'[q].log} =>
                   ~OtherViewer(q)
      ]_vars

====
